---- MODULE Spec2Model ----
(***************************************************************************)
(* Model of environ_get (the typed environment accessor) and of            *)
(* environ_get_parser (the documentation generator that scans source text  *)
(* for environ_get calls).                                                 *)
(*                                                                         *)
(* Python strings are sequences of one-character strings.  Python objects  *)
(* that are not strings are one-element sequences holding a multi-letter   *)
(* token (PyNone, PyTrue, ...), so they never equal a string.              *)
(***************************************************************************)
EXTENDS Integers, Sequences, FiniteSets, TLC

\* --------------------------------------------------------------------------
\* Python values
\* --------------------------------------------------------------------------
PyNone == <<"None">>

PyTrue == <<"True">>

PyFalse == <<"False">>

\* the _missing sentinel object of environ_get.py
Missing == <<"_missing">>

\* a default that is neither a string nor None (the tests pass the int 77)
Py77 == <<"int:77">>

\* --------------------------------------------------------------------------
\* State
\* --------------------------------------------------------------------------
\* the accessor: os.environ, the module global __ENVIRON_GET_STRICT, the
\* arguments of the environ_get call in progress and what it returned or raised
VARIABLES environ, ENVIRON_GET_STRICT, call, result

\* the argument of the latest set_environ_get_strict call, False before any
VARIABLE strict_passed

\* the generator: the parsed source and the interpreter's __debug__ flag, the
\* nodes ast.walk has still to yield, the locals of find_environ_get_calls, the
\* stage generate_environ_doc has reached with the exception that ended it, the
\* organizer's and the renderer's results
VARIABLES content, debug, todo, environ_get_calls, seen_linenumbers, prev_node,
          pc, error, refs, calls_by_section, lines

\* Description.from_desc on its own: its argument and its result
VARIABLES desc, parsed

accVars == <<environ, ENVIRON_GET_STRICT, call, result, strict_passed>>

genVars == <<content, debug, todo, environ_get_calls, seen_linenumbers, prev_node,
             pc, error, refs, calls_by_section, lines>>

descVars == <<desc, parsed>>

vars == <<accVars, genVars, descVars>>

\* --------------------------------------------------------------------------
\* The accessor: environ_get.py
\* --------------------------------------------------------------------------

TRUE_VALUES ==
  { <<"T">>, <<"Y">>, <<"1">>, <<"T","r","u","e">>, <<"t","r","u","e">>,
    <<"T","R","U","E">>, <<"Y","e","s">>, <<"y","e","s">>, <<"Y","E","S">> }

FALSE_VALUES ==
  { <<"F">>, <<"N">>, <<"0">>, <<"F","a","l","s","e">>, <<"f","a","l","s","e">>,
    <<"F","A","L","S","E">>, <<"N","o">>, <<"n","o">>, <<"N","O">>, <<>> }

Return(v) == [kind |-> "return", value |-> v]

Raise(e) == [kind |-> "raise", value |-> <<e>>]

\* bool_parser applied to a string of the environment
bool_parser(value) ==
  IF value \in TRUE_VALUES THEN Return(PyTrue)
  ELSE IF value \in FALSE_VALUES THEN Return(PyFalse)
  ELSE Raise("ValueError")

\* the callables the model passes as type: bool_parser, and str, which
\* returns its argument and never raises
ApplyType(type, value) ==
  IF type = "bool_parser" THEN bool_parser(value) ELSE Return(value)

\* the argument other is None, a str (held as the one element of v) or a list
\* of str
OtherNone == [t |-> "None", v |-> <<>>]

OtherStr(s) == [t |-> "str", v |-> <<s>>]

OtherList(l) == [t |-> "list", v |-> l]

\* environ.get(key)
EnvGet(env, key) == IF key \in DOMAIN env THEN env[key] ELSE PyNone

\* lines 65-66: a single string becomes a one-element list
OtherKeys(other) == IF other.t = "str" THEN <<other.v[1]>> ELSE other.v

\* the loop of lines 67-70 without its break: the value of the last key
LookupOtherNoBreak(env, keys) ==
  IF keys = <<>> THEN PyNone ELSE EnvGet(env, keys[Len(keys)])

\* lines 67-70: the first key of the list that is set, None when there is none
RECURSIVE LookupOther(_, _)
LookupOther(env, keys) ==
  IF keys = <<>> THEN PyNone
  ELSE IF EnvGet(env, Head(keys)) # PyNone THEN EnvGet(env, Head(keys))
  ELSE LookupOther(env, Tail(keys))

\* lines 63-70
Lookup(env, key, other) ==
  IF EnvGet(env, key) = PyNone /\ other.t # "None"
  THEN LookupOther(env, OtherKeys(other))
  ELSE EnvGet(env, key)

\* set_environ_get_strict without its global statement: the assignment binds
\* a local and the global keeps its value
set_environ_get_strict_Local(flag, strict) == flag

\* lines 27-29: the value of the global after set_environ_get_strict(strict)
set_environ_get_strict(flag, strict) == strict

\* line 59
EffectiveStrict(flag, strict) == IF strict = PyNone THEN flag ELSE strict

\* lines 72-85: a key was found
Convert(value, default, type, strict) ==
  IF type = "None" THEN Return(value)
  ELSE IF ApplyType(type, value).kind = "return" THEN ApplyType(type, value)
  ELSE IF strict = PyTrue THEN Raise("ValueError")
  ELSE IF default = Missing THEN Raise("ValueError")
  ELSE Return(default)

\* lines 46-96
environ_get(env, flag, key, default, type, other, strict) ==
  LET value == Lookup(env, key, other) IN
  IF value # PyNone
  THEN Convert(value, default, type, EffectiveStrict(flag, strict))
  ELSE IF default = Missing THEN Raise("ValueError")
  ELSE Return(default)

\* --------------------------------------------------------------------------
\* Python str operations
\* --------------------------------------------------------------------------
\* the grave accent (code point 96), which a TLA+ string cannot hold
BQ == "grave"

\* the characters of the model in code-point order
Alphabet ==
  << "\n", " ", "'", "(", ")", "*", ",", "-", ".", "0", "1", "2", "4", "7", ":", "=",
     "A", "B", "D", "E", "I", "K", "M", "Q", "R", "S", "U", "V", "X", "Y", "Z",
     "[", "]", "_", BQ,
     "a", "b", "c", "d", "e", "f", "g", "h", "i", "l", "m", "n", "o", "p", "r",
     "s", "t", "u", "v", "y" >>

Ord(c) == CHOOSE i \in 1..Len(Alphabet) : Alphabet[i] = c

\* a < b for str: by code point, a proper prefix first
RECURSIVE StrLess(_, _)
StrLess(a, b) ==
  IF b = <<>> THEN FALSE
  ELSE IF a = <<>> THEN TRUE
  ELSE IF Head(a) = Head(b) THEN StrLess(Tail(a), Tail(b))
  ELSE Ord(Head(a)) < Ord(Head(b))

StartsWith(s, p) == Len(s) >= Len(p) /\ SubSeq(s, 1, Len(p)) = p

Whitespace == {" ", "\n"}

RECURSIVE LStrip(_, _)
LStrip(s, chars) ==
  IF s # <<>> /\ Head(s) \in chars THEN LStrip(Tail(s), chars) ELSE s

RECURSIVE RStrip(_, _)
RStrip(s, chars) ==
  IF s # <<>> /\ s[Len(s)] \in chars THEN RStrip(SubSeq(s, 1, Len(s) - 1), chars) ELSE s

\* s.strip(chars)
StripChars(s, chars) == RStrip(LStrip(s, chars), chars)

\* s.strip()
Strip(s) == StripChars(s, Whitespace)

\* s.split(sep): cut at every occurrence of sep, scanning left to right
RECURSIVE SplitFrom(_, _, _)
SplitFrom(s, sep, cur) ==
  IF s = <<>> THEN <<cur>>
  ELSE IF StartsWith(s, sep) THEN <<cur>> \o SplitFrom(SubSeq(s, Len(sep) + 1, Len(s)), sep, <<>>)
  ELSE SplitFrom(Tail(s), sep, Append(cur, Head(s)))

Split(s, sep) == SplitFrom(s, sep, <<>>)

\* s.splitlines(): like split on the line break, without a last empty line
SplitLines(s) ==
  LET parts == Split(s, <<"\n">>) IN
  IF parts[Len(parts)] = <<>> THEN SubSeq(parts, 1, Len(parts) - 1) ELSE parts

\* sep.join(parts)
RECURSIVE Join(_, _)
Join(parts, sep) ==
  IF parts = <<>> THEN <<>>
  ELSE IF Len(parts) = 1 THEN parts[1]
  ELSE parts[1] \o sep \o Join(Tail(parts), sep)

\* c * n
RECURSIVE Repeat(_, _)
Repeat(c, n) == IF n = 0 THEN <<>> ELSE <<c>> \o Repeat(c, n - 1)

\* [f(x) for x in s]
RECURSIVE Map(_, _)
Map(F(_), s) == IF s = <<>> THEN <<>> ELSE <<F(Head(s))>> \o Map(F, Tail(s))

\* [x for x in s if P(x)]
RECURSIVE Filter(_, _)
Filter(P(_), s) ==
  IF s = <<>> THEN <<>>
  ELSE (IF P(Head(s)) THEN <<Head(s)>> ELSE <<>>) \o Filter(P, Tail(s))

\* the sequences over S of length lo..hi
SeqsOf(S, lo, hi) == UNION { [1..n -> S] : n \in lo..hi }

Range(s) == { s[i] : i \in 1..Len(s) }

\* bool(x) of a str or None
Truthy(x) == x # PyNone /\ x # <<>>

\* --------------------------------------------------------------------------
\* The record model: environ_get_parser.py, EnvironGetCall and Description
\* --------------------------------------------------------------------------
REQUIRED ==
  << "R", "E", "Q", "U", "I", "R", "E", "D" >>

TypeInt ==
  << "i", "n", "t" >>

TypeFloat ==
  << "f", "l", "o", "a", "t" >>

TypeStr ==
  << "s", "t", "r" >>

TypeBool ==
  << "b", "o", "o", "l" >>

TypeBoolParser ==
  << "b", "o", "o", "l", "_", "p", "a", "r", "s", "e", "r" >>

\* Description(description, default, type, section)
Description(d, df, ty, sec) ==
  [description |-> d, default |-> df, type |-> ty, section |-> sec]

\* the description field of a call that has no annotation (None)
NoDescription == Description(PyNone, PyNone, PyNone, PyNone)

\* EnvironGetCall(key, description, other, default, type)
EnvironGetCall(k, d, o, df, ty) ==
  [key |-> k, description |-> d, other |-> o, default |-> df, type |-> ty]

\* bool(self.description): a Description object is always true, None is not
HasDescription(c) == c.description # NoDescription

get_type(c) ==
  IF HasDescription(c) /\ Truthy(c.description.type) THEN c.description.type
  ELSE IF Truthy(c.type)
       THEN (IF c.type \in {TypeInt, TypeFloat, TypeStr, TypeBool} THEN c.type
             ELSE IF c.type = TypeBoolParser THEN TypeBool
             ELSE c.type)
  ELSE TypeStr

get_default(c) ==
  IF HasDescription(c) /\ Truthy(c.description.default) THEN c.description.default
  ELSE IF Truthy(c.default) THEN c.default
  ELSE PyNone

is_required(c) == get_default(c) = PyNone

section(c) ==
  IF is_required(c) THEN REQUIRED
  ELSE IF HasDescription(c) /\ Truthy(c.description.section) THEN c.description.section
  ELSE PyNone

\* --------------------------------------------------------------------------
\* Description.from_desc
\* --------------------------------------------------------------------------
PrefixDefault ==
  << ".", ".", " ", "d", "e", "f", "a", "u", "l", "t", ":", ":" >>

PrefixType ==
  << ".", ".", " ", "t", "y", "p", "e", ":", ":" >>

PrefixSection ==
  << ".", ".", " ", "s", "e", "c", "t", "i", "o", "n", ":", ":" >>

ColonColon == <<":", ":">>

\* line.split("::")[1].strip()
DirectiveValue(line) == Strip(Split(line, ColonColon)[2])

\* one turn of the loop over the stripped lines; acc holds _default, _type,
\* _section and new_desc
FromDescLine(acc, line) ==
  IF StartsWith(line, PrefixDefault) THEN [acc EXCEPT !.default = DirectiveValue(line)]
  ELSE IF StartsWith(line, PrefixType) THEN [acc EXCEPT !.type = DirectiveValue(line)]
  ELSE IF StartsWith(line, PrefixSection) THEN [acc EXCEPT !.section = DirectiveValue(line)]
  ELSE [acc EXCEPT !.new_desc = Append(@, line)]

RECURSIVE FromDescLoop(_, _)
FromDescLoop(acc, ls) ==
  IF ls = <<>> THEN acc ELSE FromDescLoop(FromDescLine(acc, Head(ls)), Tail(ls))

from_desc(d) ==
  LET acc == FromDescLoop([default |-> PyNone, type |-> PyNone, section |-> PyNone,
                           new_desc |-> <<>>],
                          Map(Strip, SplitLines(d)))
  IN Description(Join(acc.new_desc, <<"\n">>), acc.default, acc.type, acc.section)

\* --------------------------------------------------------------------------
\* The syntax tree of the scanned source (what ast.parse returns)
\* --------------------------------------------------------------------------
\* expression contexts (Load, Store), which ast.walk yields as nodes too
Ctx == [kind |-> "ctx", lineno |-> 0]

Name(id, ln) == [kind |-> "Name", lineno |-> ln, id |-> id]

\* a constant: a str (isstr) with its characters, or another constant with
\* its source text
Constant(isstr, v, ln) == [kind |-> "Constant", lineno |-> ln, isstr |-> isstr, value |-> v]

List(elts, ln) == [kind |-> "List", lineno |-> ln, elts |-> elts]

Tuple(elts, ln) == [kind |-> "Tuple", lineno |-> ln, elts |-> elts]

keyword(arg, value, ln) == [kind |-> "keyword", lineno |-> ln, arg |-> arg, value |-> value]

Call(func, args, keywords, ln) ==
  [kind |-> "Call", lineno |-> ln, func |-> func, args |-> args, keywords |-> keywords]

Assign(targets, value, ln) ==
  [kind |-> "Assign", lineno |-> ln, targets |-> targets, value |-> value]

AnnAssign(target, annotation, value, ln) ==
  [kind |-> "AnnAssign", lineno |-> ln, target |-> target, annotation |-> annotation,
   value |-> value]

Expr(value, ln) == [kind |-> "Expr", lineno |-> ln, value |-> value]

Arguments == [kind |-> "arguments", lineno |-> 0]

ClassDef(body, ln) == [kind |-> "ClassDef", lineno |-> ln, body |-> body]

FunctionDef(body, ln) == [kind |-> "FunctionDef", lineno |-> ln, body |-> body]

Module(body) == [kind |-> "Module", lineno |-> 0, body |-> body]

\* prev_node before the first node
NoNode == [kind |-> "None", lineno |-> 0]

\* ast.iter_child_nodes: the child nodes in field order
Children(n) ==
  CASE n.kind \in {"Module", "ClassDef"} -> n.body
    [] n.kind = "FunctionDef" -> <<Arguments>> \o n.body
    [] n.kind = "Assign" -> n.targets \o <<n.value>>
    [] n.kind = "AnnAssign" -> <<n.target, n.annotation, n.value>>
    [] n.kind = "Expr" -> <<n.value>>
    [] n.kind = "Call" -> <<n.func>> \o n.args \o n.keywords
    [] n.kind = "keyword" -> <<n.value>>
    [] n.kind \in {"List", "Tuple"} -> n.elts \o <<Ctx>>
    [] n.kind = "Name" -> <<Ctx>>
    [] OTHER -> <<>>

\* ast.walk: breadth first, each node followed (at the end of the queue) by
\* its children
RECURSIVE WalkQueue(_)
WalkQueue(queue) ==
  IF queue = <<>> THEN <<>>
  ELSE <<Head(queue)>> \o WalkQueue(Tail(queue) \o Children(Head(queue)))

Walk(tree) == WalkQueue(<<tree>>)

Quote == <<"'">>

CommaSpace == <<",", " ">>

\* ast.unparse of the expressions above; a str constant is unparsed as its
\* repr, which for the strings of the model is the text between two quotes
RECURSIVE Unparse(_)
Unparse(e) ==
  CASE e.kind = "Constant" -> IF e.isstr THEN Quote \o e.value \o Quote ELSE e.value
    [] e.kind = "Name" -> e.id
    [] e.kind = "List" -> <<"[">> \o Join(Map(Unparse, e.elts), CommaSpace) \o <<"]">>
    [] e.kind = "Tuple" ->
         IF Len(e.elts) = 1 THEN <<"(">> \o Unparse(e.elts[1]) \o <<",", ")">>
         ELSE <<"(">> \o Join(Map(Unparse, e.elts), CommaSpace) \o <<")">>

EnvironGetName == <<"e", "n", "v", "i", "r", "o", "n", "_", "g", "e", "t">>

KwOther == <<"o", "t", "h", "e", "r">>

KwDefault == <<"d", "e", "f", "a", "u", "l", "t">>

KwType == <<"t", "y", "p", "e">>

is_environ_get(node) ==
  node.kind = "Call" /\ node.func.kind = "Name" /\ node.func.id = EnvironGetName

\* ast.unparse(x).strip("'")
UnparseStripped(e) == StripChars(Unparse(e), {"'"})

\* kwargs.get(name) of get_args_kwargs: the stripped text of that keyword's
\* value, None without the keyword (a call cannot repeat a keyword)
RECURSIVE KwargsGet(_, _)
KwargsGet(keywords, name) ==
  IF keywords = <<>> THEN PyNone
  ELSE IF Head(keywords).arg = name THEN UnparseStripped(Head(keywords).value)
  ELSE KwargsGet(Tail(keywords), name)

\* args of get_args_kwargs
Args(node) == Map(UnparseStripped, node.args)

\* eval(text) of a text that starts with a bracket: the list or tuple that a
\* display of quoted strings denotes; SyntaxError for a text that is no such
\* display (the bracket is not closed)
EvalElement(part) == SubSeq(part, 2, Len(part) - 1)

IsQuoted(part) == Len(part) >= 2 /\ part[1] = "'" /\ part[Len(part)] = "'"

EvalLiteral(text) ==
  LET t == IF text[1] = "[" THEN "list" ELSE "tuple"
      close == IF text[1] = "[" THEN "]" ELSE ")"
      inner == SubSeq(text, 2, Len(text) - 1)
      items == IF inner # <<>> /\ inner[Len(inner)] = ","
               THEN SubSeq(inner, 1, Len(inner) - 1) ELSE inner
      parts == IF items = <<>> THEN <<>> ELSE Split(items, CommaSpace)
  IN IF Len(text) < 2 \/ text[Len(text)] # close
        \/ \E i \in 1..Len(parts) : ~IsQuoted(parts[i])
     THEN [t |-> "SyntaxError", v |-> <<>>]
     ELSE [t |-> t, v |-> Map(EvalElement, parts)]

\* lines 123-135: the object bound to other before the assertion
OtherObject(kwOther) ==
  IF ~Truthy(kwOther) THEN [t |-> "tuple", v |-> <<>>]
  ELSE IF kwOther[1] \in {"(", "["}
       THEN (IF EvalLiteral(kwOther).t = "SyntaxError"
             THEN [t |-> "tuple", v |-> <<>>] ELSE EvalLiteral(kwOther))
  ELSE [t |-> "tuple", v |-> <<kwOther>>]

\* the dict environ_get_calls: its items in insertion order
DictHas(d, k) == \E i \in 1..Len(d) : d[i].name = k

DictGet(d, k) == d[CHOOSE i \in 1..Len(d) : d[i].name = k].call

DictSet(d, k, c) ==
  IF DictHas(d, k)
  THEN [i \in 1..Len(d) |-> IF d[i].name = k THEN [name |-> k, call |-> c] ELSE d[i]]
  ELSE Append(d, [name |-> k, call |-> c])

NoError == [type |-> "", key |-> <<>>, lineno |-> 0]

Exception(type, key, ln) == [type |-> type, key |-> key, lineno |-> ln]

\* lines 139-142: one of the call's other keys is a key of the dict
OtherIsDuplicate(calls, other) == \E i \in 1..Len(other) : DictHas(calls, other[i])

\* _process_node: st holds environ_get_calls, seen_linenumbers and the
\* exception raised so far
process_node(node, st, dbg) ==
  LET key == Args(node)[1]
      other == OtherObject(KwargsGet(node.keywords, KwOther))
  IN IF DictHas(st.calls, key)
     THEN [st EXCEPT !.exc = Exception("ValueError", key, node.lineno)]
     ELSE IF dbg /\ other.t # "tuple"
     THEN [st EXCEPT !.exc = Exception("AssertionError", key, node.lineno)]
     ELSE IF OtherIsDuplicate(st.calls, other.v)
     THEN [st EXCEPT !.exc = Exception("ValueError", key, node.lineno)]
     ELSE [st EXCEPT !.calls = DictSet(@, key,
                                  EnvironGetCall(key, NoDescription, other.v,
                                                 KwargsGet(node.keywords, KwDefault),
                                                 KwargsGet(node.keywords, KwType))),
                     !.seen = @ \cup {node.lineno}]

\* textwrap.dedent: blank lines become empty, the others lose the leading
\* spaces they all share
LeadingSpaces(l) == Len(l) - Len(LStrip(l, {" "}))

Dedent(text) ==
  LET ls == Split(text, <<"\n">>)
      full == { i \in 1..Len(ls) : Strip(ls[i]) # <<>> }
      margin == IF full = {} THEN 0
                ELSE CHOOSE m \in { LeadingSpaces(ls[i]) : i \in full } :
                       \A i \in full : m <= LeadingSpaces(ls[i])
      Cut(l) == IF Strip(l) = <<>> THEN <<>> ELSE SubSeq(l, margin + 1, Len(l))
  IN Join(Map(Cut, ls), <<"\n">>)

IsAssign(node) == node.kind \in {"Assign", "AnnAssign"}

\* lines 167-170
VisitAssign(node, st, dbg) ==
  IF IsAssign(node) /\ is_environ_get(node.value) /\ node.lineno \notin st.seen
  THEN process_node(node.value, st, dbg) ELSE st

\* lines 172-173
VisitCall(node, st, dbg) ==
  IF is_environ_get(node) /\ node.lineno \notin st.seen
  THEN process_node(node, st, dbg) ELSE st

\* lines 175-189
VisitDocstring(node, prev, st) ==
  IF /\ node.kind = "Expr"
     /\ node.value.kind = "Constant"
     /\ node.value.isstr
     /\ prev # NoNode
     /\ IsAssign(prev)
     /\ is_environ_get(prev.value)
  THEN LET key == Args(prev.value)[1]
           d == Strip(Dedent(node.value.value))
       IN IF ~DictHas(st.calls, key)
          THEN [st EXCEPT !.exc = Exception("KeyError", key, node.lineno)]
          ELSE [st EXCEPT !.calls = DictSet(@, key,
                                      [DictGet(@, key) EXCEPT !.description = from_desc(d)]),
                          !.seen = @ \cup {node.lineno}]
  ELSE st

\* the body of the loop of find_environ_get_calls for one node; an exception
\* ends it where it is raised
VisitNode(node, prev, st, dbg) ==
  LET s1 == VisitAssign(node, st, dbg)
      s2 == IF s1.exc # NoError THEN s1 ELSE VisitCall(node, s1, dbg)
  IN IF s2.exc # NoError THEN s2 ELSE VisitDocstring(node, prev, s2)

\* --------------------------------------------------------------------------
\* sort_by_section
\* --------------------------------------------------------------------------
\* sorted(s, key=Key): stable, ascending in the order of str
RECURSIVE InsertBy(_, _, _)
InsertBy(Key(_), x, s) ==
  IF s = <<>> THEN <<x>>
  ELSE IF StrLess(Key(x), Key(Head(s))) THEN <<x>> \o s
  ELSE <<Head(s)>> \o InsertBy(Key, x, Tail(s))

RECURSIVE SortedBy(_, _)
SortedBy(Key(_), s) ==
  IF s = <<>> THEN <<>>
  ELSE InsertBy(Key, s[Len(s)], SortedBy(Key, SubSeq(s, 1, Len(s) - 1)))

SectionIndex(groups, sec) == CHOOSE i \in 1..Len(groups) : groups[i].section = sec

\* lines 254-258: the groups in the order their sections first appear
RECURSIVE GroupBySection(_, _)
GroupBySection(items, groups) ==
  IF items = <<>> THEN groups
  ELSE LET sec == section(Head(items).call)
           gs == IF \E i \in 1..Len(groups) : groups[i].section = sec THEN groups
                 ELSE Append(groups, [section |-> sec, calls |-> <<>>])
       IN GroupBySection(Tail(items),
            [gs EXCEPT ![SectionIndex(gs, sec)].calls = Append(@, Head(items))])

ItemName(item) == item.name

\* lines 261-263
SortWithinSection(group) == [group EXCEPT !.calls = SortedBy(ItemName, @)]

\* key=lambda x: x or ""
SectionSortKey(group) == IF Truthy(group.section) THEN group.section ELSE <<>>

IsRequiredSection(group) == group.section = REQUIRED

IsNotRequiredSection(group) == group.section # REQUIRED

IsNoneSection(group) == group.section = PyNone

IsNotNoneSection(group) == group.section # PyNone

\* lines 268-270
RequiredFirst(groups) ==
  Filter(IsRequiredSection, groups) \o Filter(IsNotRequiredSection, groups)

\* lines 273-275
NoneLast(groups) == Filter(IsNotNoneSection, groups) \o Filter(IsNoneSection, groups)

\* sort_by_section without lines 273-275: the None section stays where the
\* sort key "" put it
sort_by_section_NoneNotLast(calls) ==
  RequiredFirst(SortedBy(SectionSortKey,
    Map(SortWithinSection, GroupBySection(calls, <<>>))))

\* the dict returned: its sections in order, each with its items in order
sort_by_section(calls) ==
  NoneLast(RequiredFirst(SortedBy(SectionSortKey,
    Map(SortWithinSection, GroupBySection(calls, <<>>)))))

\* --------------------------------------------------------------------------
\* render_doc_lines
\* --------------------------------------------------------------------------
Title ==
  << "E", "n", "v", "i", "r", "o", "n", "m", "e", "n", "t", " ", "V", "a", "r", "i",
     "a", "b", "l", "e", "s" >>

TitleRule ==
  << "=", "=", "=", "=", "=", "=", "=", "=", "=", "=", "=", "=", "=", "=", "=", "=",
     "=", "=", "=", "=", "=" >>

Note ==
  << "_", "T", "h", "i", "s", " ", "d", "o", "c", "u", "m", "e", "n", "t", " ", "i",
     "s", " ", "a", "u", "t", "o", "m", "a", "t", "i", "c", "a", "l", "l", "y", " ",
     "g", "e", "n", "e", "r", "a", "t", "e", "d", " ", "f", "r", "o", "m", " ", "t",
     "h", "e", " ", BQ, BQ, "e", "n", "v", "i", "r", "o", "n", "_", "g", "e", "t", BQ,
     BQ, " ", "c", "a", "l", "l", "s", " ", "i", "n", " ", "t", "h", "e", " ", "s",
     "o", "u", "r", "c", "e", " ", "c", "o", "d", "e", ".", "_" >>

Miscellaneous ==
  << "M", "i", "s", "c", "e", "l", "l", "a", "n", "e", "o", "u", "s" >>

MiscellaneousRule ==
  << "-", "-", "-", "-", "-", "-", "-", "-", "-", "-", "-", "-", "-" >>

DefaultLabel ==
  << "*", "*", "d", "e", "f", "a", "u", "l", "t", "*", "*", ":", " " >>

\* _add of a str and of a list of str
AddLine(ls, s) == ls \o <<s, <<>>>>

AddLines(ls, ss) == ls \o ss \o << <<>> >>

Code(s) == <<BQ, BQ>> \o s \o <<BQ, BQ>>

NonEmpty(ln) == ln # <<>>

\* lines 229-233
EntryHeading(name, c) ==
  IF c.other = <<>> THEN Code(name)
  ELSE Code(name) \o <<" ", "(", "a", "l", "i", "a", "s", "e", "s", ":", " ">>
       \o Join(Map(Code, c.other), CommaSpace) \o <<")">>

\* lines 241-243
DefaultLine(c) ==
  DefaultLabel \o get_default(c) \o <<" ", BQ, "(">> \o get_type(c) \o <<")", BQ>>

\* lines 223-247: the lines of one entry
RenderEntry(ls, item, rf) ==
  LET l1 == IF rf THEN AddLine(ls, <<".", ".", " ", "_">> \o item.name \o <<":">>) ELSE ls
      l2 == AddLine(l1, EntryHeading(item.name, item.call))
      l3 == IF HasDescription(item.call)
            THEN AddLines(l2, Filter(NonEmpty, SplitLines(item.call.description.description)))
            ELSE l2
  IN IF Truthy(get_default(item.call)) THEN AddLine(l3, DefaultLine(item.call)) ELSE l3

RECURSIVE RenderEntries(_, _, _)
RenderEntries(ls, items, rf) ==
  IF items = <<>> THEN ls
  ELSE RenderEntries(RenderEntry(ls, Head(items), rf), Tail(items), rf)

\* lines 214-220
SectionHeading(ls, sec) ==
  IF Truthy(sec) THEN AddLines(ls, <<sec, Repeat("-", Len(sec))>>)
  ELSE AddLines(ls, <<Miscellaneous, MiscellaneousRule>>)

RECURSIVE RenderSections(_, _, _)
RenderSections(ls, groups, rf) ==
  IF groups = <<>> THEN ls
  ELSE RenderSections(RenderEntries(SectionHeading(ls, Head(groups).section),
                                    Head(groups).calls, rf),
                      Tail(groups), rf)

render_doc_lines(groups, rf) ==
  RenderSections(AddLine(AddLines(<<>>, <<Title, TitleRule>>), Note), groups, rf)

\* --------------------------------------------------------------------------
\* The sources the scan is run on
\* --------------------------------------------------------------------------
\* the most simple statements of a source
MaxStmts == 3

\* the most elements of an other list or tuple
MaxOther == 2

\* the most lines of an annotation
MaxLines == 2

Absent == [t |-> "absent", v |-> <<>>]

\* the expression a keyword value stands for: a str constant, another
\* constant or a name (given by its text), a list or a tuple of str constants
MkExpr(x, ln) ==
  CASE x.t = "str" -> Constant(TRUE, x.v, ln)
    [] x.t = "str1" -> Constant(TRUE, x.v[1], ln)
    [] x.t = "raw" -> Constant(FALSE, x.v, ln)
    [] x.t = "name" -> Name(x.v, ln)
    [] x.t = "list" -> List([i \in 1..Len(x.v) |-> Constant(TRUE, x.v[i], ln)], ln)
    [] x.t = "tuple" -> Tuple([i \in 1..Len(x.v) |-> Constant(TRUE, x.v[i], ln)], ln)

MkKeyword(name, x, ln) == IF x = Absent THEN <<>> ELSE <<keyword(name, MkExpr(x, ln), ln)>>

\* environ_get("key", other=..., default=..., type=...)
MkCall(c, ln) ==
  Call(Name(EnvironGetName, ln), <<Constant(TRUE, c.key, ln)>>,
       MkKeyword(KwOther, c.other, ln) \o MkKeyword(KwDefault, c.default, ln)
         \o MkKeyword(KwType, c.type, ln),
       ln)

\* one simple statement on line ln
MkStmt(s, ln) ==
  CASE s.kind = "Assign" -> Assign(<<Name(<<"V">>, ln)>>, MkCall(s.call, ln), ln)
    [] s.kind = "AnnAssign" ->
         AnnAssign(Name(<<"V">>, ln), Name(TypeStr, ln), MkCall(s.call, ln), ln)
    [] s.kind = "ExprCall" -> Expr(MkCall(s.call, ln), ln)
    [] s.kind = "Plain" -> Assign(<<Name(<<"V">>, ln)>>, Constant(FALSE, <<"1">>, ln), ln)
    [] s.kind = "Doc" -> Expr(Constant(TRUE, s.text, ln), ln)

MkCompound(kind, body, ln) ==
  IF kind = "ClassDef" THEN ClassDef(body, ln) ELSE FunctionDef(body, ln)

\* the module body of a list of simple statements, each placed (where) at the
\* top level or in a class or function body and (place) on a new line, on
\* the line of the statement before it (after a semicolon) or first in a new
\* class or function
RECURSIVE BuildBody(_, _, _)
BuildBody(specs, ln, body) ==
  IF specs = <<>> THEN body
  ELSE LET s == Head(specs) IN
       IF s.where = "top"
       THEN LET l == IF s.place = "sameline" THEN ln ELSE ln + 1
            IN BuildBody(Tail(specs), l, Append(body, MkStmt(s, l)))
       ELSE IF s.place = "newblock"
       THEN BuildBody(Tail(specs), ln + 2,
                      Append(body, MkCompound(s.where, <<MkStmt(s, ln + 2)>>, ln + 1)))
       ELSE LET l == IF s.place = "sameline" THEN ln ELSE ln + 1
            IN BuildBody(Tail(specs), l,
                         [body EXCEPT ![Len(body)].body = Append(@, MkStmt(s, l))])

Placements ==
  { <<"top", "newline">>, <<"top", "sameline">> }
  \cup ({"ClassDef", "FunctionDef"} \X {"newblock", "newline", "sameline"})

\* the placements the grammar allows after one another
WellPlaced(specs) ==
  \A i \in 1..Len(specs) :
    /\ <<specs[i].where, specs[i].place>> \in Placements
    /\ specs[i].place = "sameline" => i > 1
    /\ (specs[i].where = "top" /\ specs[i].place = "sameline") => specs[i - 1].where = "top"
    /\ (specs[i].where # "top" /\ specs[i].place # "newblock") =>
         (i > 1 /\ specs[i - 1].where = specs[i].where)

Source(specs) == Module(BuildBody(specs, 0, <<>>))

Keys == { <<"A">>, <<"B">> }

PlainCall(k) == [key |-> k, other |-> Absent, default |-> Absent, type |-> Absent]

Stmt(kind, c, text, where, place) ==
  [kind |-> kind, call |-> c, text |-> text, where |-> where, place |-> place]

\* statements in every placement: calls with only a key, an annotation, an
\* assignment of something else
LayoutStmts ==
  { Stmt(k, PlainCall(key), <<"d">>, p[1], p[2]) :
      k \in {"Assign", "ExprCall"}, key \in Keys, p \in Placements }
  \cup { Stmt(k, PlainCall(<<"A">>), <<"d">>, p[1], p[2]) :
            k \in {"Doc", "Plain"}, p \in Placements }

LayoutSources ==
  { Source(specs) : specs \in { q \in SeqsOf(LayoutStmts, 1, MaxStmts) : WellPlaced(q) } }

\* the values of the other keyword: a str (as a one-element sequence), a list
\* or a tuple
OtherValues ==
  {Absent} \cup { [t |-> "str1", v |-> <<k>>] : k \in Keys \cup {<<"[">>} }
  \cup { [t |-> t, v |-> v] : t \in {"list", "tuple"}, v \in SeqsOf(Keys, 0, MaxOther) }

\* one or two calls with aliases, at the top level
AliasCalls == { [key |-> k, other |-> o, default |-> Absent, type |-> Absent] :
                  k \in Keys, o \in OtherValues }

AliasSources ==
  { Source(<<Stmt("ExprCall", c, <<>>, "top", "newline")>>) : c \in AliasCalls }
  \cup { Source(<<Stmt("ExprCall", c1, <<>>, "top", "newline"),
                   Stmt("AnnAssign", c2, <<>>, "top", "newline")>>) :
            c1 \in AliasCalls, c2 \in AliasCalls }

\* the values of the default and type keywords
DefaultValues ==
  { Absent, [t |-> "raw", v |-> <<"1", "1">>], [t |-> "str", v |-> <<>>],
    [t |-> "str", v |-> <<"d">>], [t |-> "name", v |-> <<"N", "o", "n", "e">>] }

TypeValues ==
  { Absent, [t |-> "name", v |-> TypeInt], [t |-> "name", v |-> TypeBoolParser],
    [t |-> "name", v |-> <<"c", "o", "m", "p", "l", "e", "x">>] }

\* the lines of an annotation
AnnotationLines ==
  { <<>>, <<"d">>,
    PrefixDefault \o <<" ", "4", "2">>, PrefixDefault,
    PrefixType \o <<" ", "f", "l", "o", "a", "t">>, PrefixType,
    PrefixSection \o <<" ", "S">>, PrefixSection \o <<" ">> \o REQUIRED }

Annotations ==
  { Join(ls, <<"\n">>) : ls \in SeqsOf(AnnotationLines, 1, MaxLines) }

\* one assignment with a default and a type, and its annotation
EntryCalls == { [key |-> <<"K">>, other |-> Absent, default |-> d, type |-> t] :
                  d \in DefaultValues, t \in TypeValues }

EntrySources ==
  { Source(<<Stmt("Assign", c, <<>>, "top", "newline")>>) : c \in EntryCalls }
  \cup { Source(<<Stmt("Assign", c, <<>>, "top", "newline"),
                   Stmt("Doc", c, a, "top", "newline")>>) :
            c \in EntryCalls, a \in Annotations }

Sources == LayoutSources \cup AliasSources \cup EntrySources

\* --------------------------------------------------------------------------
\* generate_environ_doc, step by step
\* --------------------------------------------------------------------------
NoCall == [key |-> PyNone, default |-> Missing, type |-> "None", other |-> OtherNone,
           strict |-> PyNone]

NoResult == [kind |-> "none", value |-> PyNone]

AccessorIdle ==
  /\ environ = [k \in {} |-> PyNone]
  /\ ENVIRON_GET_STRICT = PyFalse
  /\ call = NoCall
  /\ result = NoResult
  /\ strict_passed = PyFalse

DescIdle ==
  /\ desc = <<>>
  /\ parsed = NoDescription

GeneratorIdle ==
  /\ content = Module(<<>>)
  /\ debug = TRUE
  /\ todo = <<>>
  /\ environ_get_calls = <<>>
  /\ seen_linenumbers = {}
  /\ prev_node = NoNode
  /\ pc = "idle"
  /\ error = NoError
  /\ refs = TRUE
  /\ calls_by_section = <<>>
  /\ lines = <<>>

\* find_environ_get_calls is entered with the parsed source
InitScan(sources) ==
  /\ content \in sources
  /\ debug \in BOOLEAN
  /\ todo = Walk(content)
  /\ environ_get_calls = <<>>
  /\ seen_linenumbers = {}
  /\ prev_node = NoNode
  /\ pc = "scan"
  /\ error = NoError
  /\ refs = TRUE
  /\ calls_by_section = <<>>
  /\ lines = <<>>

Init ==
  /\ InitScan(Sources)
  /\ AccessorIdle
  /\ DescIdle

\* one turn of the loop over ast.walk (lines 166-191); the scan returns after
\* the last node (line 193) and ends at once when an exception is raised
Visit ==
  /\ pc = "scan"
  /\ todo # <<>>
  /\ LET st == VisitNode(Head(todo), prev_node,
                         [calls |-> environ_get_calls, seen |-> seen_linenumbers,
                          exc |-> NoError], debug)
     IN /\ environ_get_calls' = st.calls
        /\ seen_linenumbers' = st.seen
        /\ error' = st.exc
        /\ pc' = IF st.exc # NoError THEN "raised"
                  ELSE IF Tail(todo) = <<>> THEN "scanned" ELSE "scan"
        /\ prev_node' = IF st.exc # NoError THEN prev_node ELSE Head(todo)
  /\ todo' = Tail(todo)
  /\ UNCHANGED <<content, debug, refs, calls_by_section, lines>>
  /\ UNCHANGED <<accVars, descVars>>

\* line 292
SortBySection ==
  /\ pc = "scanned"
  /\ calls_by_section' = sort_by_section(environ_get_calls)
  /\ pc' = "sorted"
  /\ UNCHANGED <<content, debug, todo, environ_get_calls, seen_linenumbers, prev_node,
                 error, refs, lines>>
  /\ UNCHANGED <<accVars, descVars>>

\* line 293, with either value of the refs argument
RenderDocLines ==
  /\ pc = "sorted"
  /\ \E rf \in BOOLEAN :
       /\ refs' = rf
       /\ lines' = render_doc_lines(calls_by_section, rf)
  /\ pc' = "done"
  /\ UNCHANGED <<content, debug, todo, environ_get_calls, seen_linenumbers, prev_node,
                 error, calls_by_section>>
  /\ UNCHANGED <<accVars, descVars>>

Next == Visit \/ SortBySection \/ RenderDocLines

Spec == Init /\ [][Next]_vars

\* --------------------------------------------------------------------------
\* sort_by_section and render_doc_lines on any mapping
\* --------------------------------------------------------------------------
\* the most entries of a mapping
MaxEntries == 3

OrgNames == { <<"A">>, <<"A", "B">>, <<"B">>, <<"a">>, <<"b">> }

SectionOnly(sec) == Description(<<>>, PyNone, PyNone, sec)

\* what decides an entry's section: no default (with and without a section
\* directive), or a default with no annotation or with a section directive
OrgVariants ==
  { [default |-> PyNone, description |-> NoDescription],
    [default |-> PyNone, description |-> SectionOnly(<<"S">>)],
    [default |-> <<"1">>, description |-> NoDescription],
    [default |-> <<"1">>, description |-> SectionOnly(<<"A">>)],
    [default |-> <<"1">>, description |-> SectionOnly(<<"S">>)],
    [default |-> <<"1">>, description |-> SectionOnly(REQUIRED)] }

OrgItems ==
  { [name |-> n, call |-> EnvironGetCall(n, v.description, <<>>, v.default, PyNone)] :
      n \in OrgNames, v \in OrgVariants }

\* a dict: items in any insertion order, no key twice
Mappings ==
  { m \in SeqsOf(OrgItems, 0, MaxEntries) :
      \A i, j \in 1..Len(m) : i # j => m[i].name # m[j].name }

InitOrganize ==
  /\ environ_get_calls \in Mappings
  /\ pc = "scanned"
  /\ content = Module(<<>>)
  /\ debug = TRUE
  /\ todo = <<>>
  /\ seen_linenumbers = {}
  /\ prev_node = NoNode
  /\ error = NoError
  /\ refs = TRUE
  /\ calls_by_section = <<>>
  /\ lines = <<>>
  /\ AccessorIdle
  /\ DescIdle

NextOrganize == SortBySection \/ RenderDocLines

SpecOrganize == InitOrganize /\ [][NextOrganize]_vars

\* --------------------------------------------------------------------------
\* Description.from_desc on any text
\* --------------------------------------------------------------------------
\* the most lines of a text
MaxDescLines == 2

\* the most characters of a line after its prefix
MaxRest == 3

DescPrefixes == { <<>>, PrefixDefault, PrefixType, PrefixSection }

DescLines ==
  { p \o r : p \in DescPrefixes, r \in SeqsOf({" ", ":", "a"}, 0, MaxRest) }

DescTexts == { Join(ls, <<"\n">>) : ls \in SeqsOf(DescLines, 0, MaxDescLines) }

InitDesc ==
  /\ desc \in DescTexts
  /\ parsed = NoDescription
  /\ GeneratorIdle
  /\ AccessorIdle

FromDesc ==
  /\ pc = "idle"
  /\ parsed' = from_desc(desc)
  /\ pc' = "parsed"
  /\ UNCHANGED <<content, debug, todo, environ_get_calls, seen_linenumbers, prev_node,
                 error, refs, calls_by_section, lines, desc>>
  /\ UNCHANGED accVars

SpecDesc == InitDesc /\ [][FromDesc]_vars

\* --------------------------------------------------------------------------
\* The accessor's operations
\* --------------------------------------------------------------------------
\* the most keys of a list passed as other
MaxOtherKeys == 2

EnvKeys == { <<"K">>, <<"X">>, <<"Y">> }

\* values of the environment: bool_parser maps "1" to True and "" to False and
\* rejects "x"
EnvValues == { <<"1">>, <<"x">>, <<>> }

DefaultArgs == { Missing, PyNone, Py77 }

TypeArgs == { "None", "bool_parser", "str" }

OtherArgs ==
  {OtherNone} \cup { OtherStr(k) : k \in EnvKeys }
  \cup { OtherList(l) : l \in SeqsOf(EnvKeys, 0, MaxOtherKeys) }

StrictArgs == { PyNone, PyTrue, PyFalse }

InitAccessor ==
  /\ AccessorIdle
  /\ GeneratorIdle
  /\ DescIdle

\* os.environ[k] = v, by the program's caller between two calls
SetEnviron ==
  /\ call = NoCall
  /\ \E k \in EnvKeys, v \in EnvValues :
       environ' = [x \in DOMAIN environ \cup {k} |-> IF x = k THEN v ELSE environ[x]]
  /\ UNCHANGED <<ENVIRON_GET_STRICT, call, result, strict_passed, genVars, descVars>>

\* del os.environ[k]
DelEnviron ==
  /\ call = NoCall
  /\ \E k \in DOMAIN environ :
       environ' = [x \in DOMAIN environ \ {k} |-> environ[x]]
  /\ UNCHANGED <<ENVIRON_GET_STRICT, call, result, strict_passed, genVars, descVars>>

\* set_environ_get_strict(strict)
SetEnvironGetStrict ==
  /\ call = NoCall
  /\ \E b \in {PyTrue, PyFalse} :
       /\ ENVIRON_GET_STRICT' = set_environ_get_strict(ENVIRON_GET_STRICT, b)
       /\ strict_passed' = b
  /\ UNCHANGED <<environ, call, result, genVars, descVars>>

\* environ_get(key, default=..., type=..., other=..., strict=...) runs to its
\* return or raise
EnvironGet ==
  /\ call = NoCall
  /\ \E k \in EnvKeys, d \in DefaultArgs, t \in TypeArgs, o \in OtherArgs, s \in StrictArgs :
       /\ call' = [key |-> k, default |-> d, type |-> t, other |-> o, strict |-> s]
       /\ result' = environ_get(environ, ENVIRON_GET_STRICT, k, d, t, o, s)
  /\ UNCHANGED <<environ, ENVIRON_GET_STRICT, strict_passed, genVars, descVars>>

\* the caller has taken the value or the exception
CallEnds ==
  /\ call # NoCall
  /\ call' = NoCall
  /\ result' = NoResult
  /\ UNCHANGED <<environ, ENVIRON_GET_STRICT, strict_passed, genVars, descVars>>

NextAccessor == SetEnviron \/ DelEnviron \/ SetEnvironGetStrict \/ EnvironGet \/ CallEnds

SpecAccessor == InitAccessor /\ [][NextAccessor]_vars

\* --------------------------------------------------------------------------
\* What the source says, read off the syntax tree
\* --------------------------------------------------------------------------
IsRecognizedCall(n) == is_environ_get(n)

\* the environ_get calls of the source, in the order of the walk
RecognizedCalls(tree) == Filter(IsRecognizedCall, Walk(tree))

\* the str the call's first argument denotes
KeyOf(node) == node.args[1].value

IsOtherKeyword(kw) == kw.arg = KwOther

\* the strs the call's other keyword denotes, in source order
AliasesOf(node) ==
  LET kws == Filter(IsOtherKeyword, node.keywords) IN
  IF kws = <<>> THEN <<>>
  ELSE IF kws[1].value.kind = "Constant" THEN <<kws[1].value.value>>
  ELSE [i \in 1..Len(kws[1].value.elts) |-> kws[1].value.elts[i].value]

RECURSIVE Flatten(_)
Flatten(ss) == IF ss = <<>> THEN <<>> ELSE Head(ss) \o Flatten(Tail(ss))

NamesOfCall(node) == <<KeyOf(node)>> \o AliasesOf(node)

\* every primary key and alias of the source, call by call
AllNames(tree) == Flatten(Map(NamesOfCall, RecognizedCalls(tree)))

\* the primary keys and aliases of the source are pairwise distinct
AllDistinct(tree) ==
  \A i, j \in 1..Len(AllNames(tree)) : i # j => AllNames(tree)[i] # AllNames(tree)[j]

Returned == pc \in {"scanned", "sorted", "done"}

RecordedNames(c) == {c.key} \cup Range(c.other)

\* --------------------------------------------------------------------------
\* C1
\* --------------------------------------------------------------------------
\* C1: a call whose primary key or alias was already recorded by an earlier
\* call-site, as a primary key or as an alias, aborts the scan with the
\* duplicate-key error, so no two recorded call-sites ever share a name; and
\* the duplicate-key error is raised only for a source whose keys and aliases
\* are not pairwise distinct.
C1_DuplicateKeyPolicy ==
  /\ \A i, j \in 1..Len(environ_get_calls) :
       i < j => RecordedNames(environ_get_calls[i].call)
                  \cap RecordedNames(environ_get_calls[j].call) = {}
  /\ error.type = "ValueError" => ~AllDistinct(content)

\* --------------------------------------------------------------------------
\* C2
\* --------------------------------------------------------------------------
OnlyCall == RecognizedCalls(content)[1]

AliasHeading(key, aliases) ==
  <<BQ, BQ>> \o key \o <<BQ, BQ, " ", "(", "a", "l", "i", "a", "s", "e", "s", ":", " ">>
  \o Join([i \in 1..Len(aliases) |-> <<BQ, BQ>> \o aliases[i] \o <<BQ, BQ>>], CommaSpace)
  \o <<")">>

\* C2: when the source holds one call and its other keyword is a str, a list
\* or a tuple of strs, the scan succeeds, the record's aliases are those strs
\* in source order, and the rendered document has the heading line of the key
\* followed by all the aliases, each in code marks, in that order.
C2_AliasesExtractedAndRendered ==
  (Len(RecognizedCalls(content)) = 1 /\ AliasesOf(OnlyCall) # <<>>) =>
    /\ pc # "raised"
    /\ Returned =>
         /\ Len(environ_get_calls) = 1
         /\ environ_get_calls[1].call.other = AliasesOf(OnlyCall)
    /\ pc = "done" =>
         \E i \in 1..Len(lines) : lines[i] = AliasHeading(KeyOf(OnlyCall), AliasesOf(OnlyCall))

\* --------------------------------------------------------------------------
\* C3
\* --------------------------------------------------------------------------
\* the call-site of a recorded key carries a default keyword
IsDefaultKeyword(kw) == kw.arg = KwDefault

CarriesDefault(key) ==
  \E i \in 1..Len(RecognizedCalls(content)) :
    /\ KeyOf(RecognizedCalls(content)[i]) = key
    /\ Filter(IsDefaultKeyword, RecognizedCalls(content)[i].keywords) # <<>>

\* the annotation attached to the record has a default directive
HasDefaultDirective(c) == HasDescription(c) /\ c.description.default # PyNone

\* C3: a scanned entry is required exactly when its annotation has no default
\* directive and its call has no default keyword, whatever the text of the
\* default; and a required entry is in section REQUIRED whatever its
\* annotation's section directive says.
C3_RequiredClassification ==
  Returned =>
    \A i \in 1..Len(environ_get_calls) :
      LET c == environ_get_calls[i].call IN
      /\ is_required(c) <=> (~HasDefaultDirective(c) /\ ~CarriesDefault(c.key))
      /\ is_required(c) => section(c) = REQUIRED

\* --------------------------------------------------------------------------
\* C4
\* --------------------------------------------------------------------------
\* section a comes before section b: REQUIRED first, None last, the others
\* in the order of str
SectionBefore(a, b) ==
  /\ a # b
  /\ \/ a = REQUIRED
     \/ b = PyNone
     \/ (a # PyNone /\ b # REQUIRED /\ StrLess(a, b))

SwapAt(m, i) ==
  [k \in 1..Len(m) |-> IF k = i THEN m[i + 1] ELSE IF k = i + 1 THEN m[i] ELSE m[k]]

\* C4: the sections of the organized mapping are in a strict total order,
\* REQUIRED first, None last and the other names ascending between them; the
\* entries of a section ascend by key; each input entry is in exactly one
\* place, in the section it belongs to; and exchanging two neighbours of the
\* input's insertion order gives the same result.
C4_OrganizerOrdering ==
  pc \in {"sorted", "done"} =>
    LET g == calls_by_section IN
    /\ \A i, j \in 1..Len(g) : i < j => SectionBefore(g[i].section, g[j].section)
    /\ \A i \in 1..Len(g) : \A j, k \in 1..Len(g[i].calls) :
         j < k => StrLess(g[i].calls[j].name, g[i].calls[k].name)
    /\ \A n \in 1..Len(environ_get_calls) :
         Cardinality({ <<i, j>> \in (1..Len(g)) \X (1..MaxEntries + 1) :
                        j <= Len(g[i].calls) /\ g[i].calls[j] = environ_get_calls[n] }) = 1
    /\ \A i \in 1..Len(g) :
         /\ g[i].calls # <<>>
         /\ \A j \in 1..Len(g[i].calls) :
              /\ section(g[i].calls[j].call) = g[i].section
              /\ \E n \in 1..Len(environ_get_calls) : environ_get_calls[n] = g[i].calls[j]
    /\ \A i \in 1..(Len(environ_get_calls) - 1) :
         sort_by_section(SwapAt(environ_get_calls, i)) = g

\* the sections None, A and REQUIRED, inserted in that order, come out as
\* REQUIRED, A, None, though A sorts before REQUIRED and None before both
C4_Witness ==
  /\ pc = "sorted"
  /\ Len(environ_get_calls) = 3
  /\ section(environ_get_calls[1].call) = PyNone
  /\ section(environ_get_calls[2].call) = <<"A">>
  /\ section(environ_get_calls[3].call) = REQUIRED
  /\ [i \in 1..Len(calls_by_section) |-> calls_by_section[i].section]
       = <<REQUIRED, <<"A">>, PyNone>>

\* --------------------------------------------------------------------------
\* C5
\* --------------------------------------------------------------------------
\* the statement lists of the source: the module body and the bodies of its
\* classes and functions
Bodies(tree) ==
  {tree.body}
  \cup { tree.body[i].body : i \in { k \in 1..Len(tree.body) :
                                       tree.body[k].kind \in {"ClassDef", "FunctionDef"} } }

IsStringStatement(n) == n.kind = "Expr" /\ n.value.kind = "Constant" /\ n.value.isstr

\* the source has a string statement right after an assignment of a call
\* with this key, in the same statement list, and it parses to d
FollowsAssignment(key, d) ==
  \E b \in Bodies(content) : \E i \in 1..(Len(b) - 1) :
    /\ IsAssign(b[i])
    /\ IsRecognizedCall(b[i].value)
    /\ KeyOf(b[i].value) = key
    /\ IsStringStatement(b[i + 1])
    /\ from_desc(Strip(Dedent(b[i + 1].value.value))) = d

\* C5: a record has an annotation only when the source has that string
\* statement immediately after the assignment of the record's call; a string
\* statement anywhere else is attached to no record.
C5_AnnotationFollowsAssignment ==
  \A i \in 1..Len(environ_get_calls) :
    HasDescription(environ_get_calls[i].call) =>
      FollowsAssignment(environ_get_calls[i].name, environ_get_calls[i].call.description)

\* --------------------------------------------------------------------------
\* C6
\* --------------------------------------------------------------------------
\* C6: for a source whose keys and aliases are pairwise distinct the mapping
\* the scan returns has one entry for each recognized call, assigned or free
\* standing, and its keys are the primary keys of those calls.
C6_CallSiteCoverage ==
  (Returned /\ AllDistinct(content)) =>
    /\ Len(environ_get_calls) = Len(RecognizedCalls(content))
    /\ { environ_get_calls[i].name : i \in 1..Len(environ_get_calls) }
         = { KeyOf(RecognizedCalls(content)[i]) : i \in 1..Len(RecognizedCalls(content)) }

\* --------------------------------------------------------------------------
\* C7
\* --------------------------------------------------------------------------
HasTypeDirective(c) == HasDescription(c) /\ c.description.type # PyNone

\* the name the generator shows for a type literal
ShownType(t) == IF t = TypeBoolParser THEN TypeBool ELSE t

\* C7: the effective default of an entry is the value of its annotation's
\* default directive when there is one and the call's default literal when
\* there is none; its effective type is the value of the type directive, or
\* without one the call's type literal, or without either "str"; and the
\* rendered default line shows them.
C7_AnnotationOverride ==
  Returned =>
    \A i \in 1..Len(environ_get_calls) :
      LET c == environ_get_calls[i].call IN
      /\ HasDefaultDirective(c) => get_default(c) = c.description.default
      /\ ~HasDefaultDirective(c) => get_default(c) = c.default
      /\ HasTypeDirective(c) => get_type(c) = c.description.type
      /\ (~HasTypeDirective(c) /\ c.type # PyNone) => get_type(c) = ShownType(c.type)
      /\ (~HasTypeDirective(c) /\ c.type = PyNone) => get_type(c) = TypeStr
      /\ (pc = "done" /\ (HasDefaultDirective(c) \/ c.default # PyNone)) =>
           \E k \in 1..Len(lines) :
             lines[k] = DefaultLabel
                        \o (IF HasDefaultDirective(c) THEN c.description.default ELSE c.default)
                        \o <<" ", BQ, "(">> \o get_type(c) \o <<")", BQ>>

\* --------------------------------------------------------------------------
\* C8
\* --------------------------------------------------------------------------
\* the keys of the call in the order they are to be tried
KeysTried == <<call.key>> \o call.other.v

IsSet(k) == k \in DOMAIN environ

FirstSet == CHOOSE i \in 1..Len(KeysTried) :
              IsSet(KeysTried[i]) /\ \A j \in 1..(i - 1) : ~IsSet(KeysTried[j])

SomeSet == \E i \in 1..Len(KeysTried) : IsSet(KeysTried[i])

ConversionRaises ==
  /\ SomeSet
  /\ call.type = "bool_parser"
  /\ environ[KeysTried[FirstSet]] \notin (TRUE_VALUES \cup FALSE_VALUES)

\* C9: when the value found does not convert and a default was supplied, the
\* call returns the default if the effective strict mode is false and raises
\* the ValueError if it is true, the effective mode being the strict argument
\* unless that is None and else the value last passed to
\* set_environ_get_strict (False before any call); and the global flag always
\* is that value, so no environ_get call changes it.
C9_StrictMode ==
  /\ ENVIRON_GET_STRICT = strict_passed
  /\ (call # NoCall /\ ConversionRaises /\ call.default # Missing) =>
       LET strict == IF call.strict # PyNone THEN call.strict ELSE strict_passed
       IN result = IF strict = PyTrue THEN Raise("ValueError") ELSE Return(call.default)

\* strict mode was set globally, the call passes no strict argument, and the
\* failed conversion is raised although a default was supplied
C9_Witness ==
  /\ call # NoCall
  /\ ConversionRaises
  /\ call.default = Py77
  /\ call.strict = PyNone
  /\ strict_passed = PyTrue
  /\ result = Raise("ValueError")

\* --------------------------------------------------------------------------
\* C10
\* --------------------------------------------------------------------------
\* the lines from_desc looks at
DescLinesOf(text) == Map(Strip, SplitLines(text))

IsDirectiveLine(l) ==
  StartsWith(l, PrefixDefault) \/ StartsWith(l, PrefixType) \/ StartsWith(l, PrefixSection)

IsProseLine(l) == ~IsDirectiveLine(l)

\* the trimmed rest of the last line that starts with the prefix, None when
\* no line does
RestOfLast(text, prefix) ==
  LET ls == DescLinesOf(text)
      hits == { i \in 1..Len(ls) : StartsWith(ls[i], prefix) }
      last == CHOOSE i \in hits : \A j \in hits : j <= i
  IN IF hits = {} THEN PyNone
     ELSE Strip(SubSeq(ls[last], Len(prefix) + 1, Len(ls[last])))

\* C10: each directive's stored value is the whole text after the prefix,
\* trimmed, of the last line that starts with that prefix, whatever the text
\* holds; the description is the other lines in their order.
C10_DirectiveExtraction ==
  pc = "parsed" =>
    /\ parsed.default = RestOfLast(desc, PrefixDefault)
    /\ parsed.type = RestOfLast(desc, PrefixType)
    /\ parsed.section = RestOfLast(desc, PrefixSection)
    /\ parsed.description = Join(Filter(IsProseLine, DescLinesOf(desc)), <<"\n">>)

\* --------------------------------------------------------------------------
\* C11, C12: the rendered document
\* --------------------------------------------------------------------------
Blank(ln) == ln = <<>>

TwoBlanksAt(ls, i) == Blank(ls[i]) /\ Blank(ls[i + 1])

\* C11: the rendered line list never holds two consecutive blank lines, and it
\* ends with the one blank line that follows its last block.
C11_RendererSpacing ==
  pc = "done" =>
    /\ \A i \in 1..(Len(lines) - 1) : ~TwoBlanksAt(lines, i)
    /\ Blank(lines[Len(lines)])

\* a section heading: a line followed by its underline of dashes
IsHeadingAt(ls, i) ==
  /\ i < Len(ls)
  /\ ls[i] # <<>>
  /\ ls[i + 1] = Repeat("-", Len(ls[i]))

\* the heading the line at i is rendered under (0 before the first heading)
HeadingOf(ls, i) ==
  LET hs == { h \in 1..i : IsHeadingAt(ls, h) }
  IN IF hs = {} THEN 0 ELSE CHOOSE h \in hs : \A g \in hs : g <= h

IsDefaultLineAt(ls, i) == StartsWith(ls[i], DefaultLabel)

UnderRequired(ls, i) == HeadingOf(ls, i) # 0 /\ ls[HeadingOf(ls, i)] = REQUIRED

\* the number of default lines rendered under the headings other than REQUIRED
DefaultLinesOutsideRequired(ls) ==
  Cardinality({ i \in 1..Len(ls) : IsDefaultLineAt(ls, i) /\ ~UnderRequired(ls, i) })

EntriesOutsideRequired ==
  LET Outside(g) == g.section # REQUIRED
  IN Flatten(Map(LAMBDA g : g.calls, Filter(Outside, calls_by_section)))

\* C12: every entry of the REQUIRED section is required and no default line
\* is rendered under the REQUIRED heading; every entry of another section is
\* not required and has its default line.
C12_RequiredSectionMembership ==
  /\ pc \in {"sorted", "done"} =>
       \A g \in Range(calls_by_section) : \A item \in Range(g.calls) :
         g.section = REQUIRED <=> is_required(item.call)
  /\ pc = "done" =>
       /\ \A i \in 1..Len(lines) : IsDefaultLineAt(lines, i) => ~UnderRequired(lines, i)
       /\ DefaultLinesOutsideRequired(lines) = Len(EntriesOutsideRequired)

====
